---- MODULE Spec2Model ----
(***************************************************************************)
(* Proof-of-work header chain of src/c2_blockchain/p3_consensus.rs:        *)
(* Header::genesis, Header::child (mining by recursive retry), the three   *)
(* verify_sub_chain variants, is_block_valid / verify_block and            *)
(* build_contentious_forked_chain.                                         *)
(*                                                                         *)
(* u64 values are modelled by 0..MaxU with arithmetic modulo MaxU + 1.     *)
(* An overflowing `+` panics in a build with overflow checks ("debug",     *)
(* the profile `cargo test` uses) and wraps in a build without them        *)
(* ("release"); the build is chosen in Init.                               *)
(***************************************************************************)
EXTENDS Integers, Sequences, FiniteSets, TLC

\* ------------------------------------------------------------------ bounds
\* Largest value of the machine word standing for u64::max_value().
MaxU == 255
\* Longest chain mined on top of genesis.
MaxChain == 4
\* Number of nested child frames the call stack holds.
StackLimit == 2
\* Longest chain in which a field of one block is overwritten.
MaxTamperLen == 2
\* Longest chain mined with extrinsics that overflow the state.
MaxSumChain == 2

Mod == MaxU + 1
U64 == 0..MaxU

\* ------------------------------------------------------- program constants
THRESHOLD == MaxU \div 100
FORK_HEIGHT == 2

Builds == {"debug", "release"}
Fields == {"parent", "height", "state", "consensus_digest"}

\* u64 addition: the wrapped sum and whether the exact sum leaves the word.
WrapAdd(a, b) == (a + b) % Mod
AddOverflows(a, b) == a + b > MaxU

\* ------------------------------------------------------------------- hash
\* crate::hash: std's DefaultHasher fed the header's fields in declaration
\* order, finished to one word.  Deterministic, not injective.
HashWrite(acc, v) == (acc * 31 + v + 17) % Mod
HashFinish(x) == ((x * x) \div 4 + 6 * x + 3) % Mod
hash(h) ==
    LET a1 == HashWrite(7, h.parent)
        a2 == HashWrite(a1, h.height)
        a3 == HashWrite(a2, h.extrinsic)
        a4 == HashWrite(a3, h.state)
        a5 == HashWrite(a4, h.consensus_digest)
    IN  HashFinish(a5)

\* ----------------------------------------------------------------- Header
genesis == [parent |-> 0, height |-> 0, extrinsic |-> 0, state |-> 0, consensus_digest |-> 0]

\* Mutant: the child forgets to apply its extrinsic to the state.
ChildCandidateStaleState(p, e, n) == [parent |-> hash(p), height |-> WrapAdd(p.height, 1), extrinsic |-> e, state |-> p.state, consensus_digest |-> n]

\* The header one attempt of child assembles from the drawn nonce n.
ChildCandidate(p, e, n) == [parent |-> hash(p), height |-> WrapAdd(p.height, 1), extrinsic |-> e, state |-> WrapAdd(p.state, e), consensus_digest |-> n]

\* Whether assembling the candidate overflows a u64 addition.
ChildOverflows(p, e) == AddOverflows(p.height, 1) \/ AddOverflows(p.state, e)

\* --------------------------------------------------------- is_block_valid
\* Mutant: the threshold rule is dropped from the conjunction.
IsBlockValidNoPow(block, prev, b) ==
    IF b = "debug" /\ AddOverflows(prev.height, 1) THEN "panic"
    ELSE IF block.height # WrapAdd(prev.height, 1) THEN "false"
    ELSE IF b = "debug" /\ AddOverflows(prev.state, block.extrinsic) THEN "panic"
    ELSE IF block.state # WrapAdd(prev.state, block.extrinsic) THEN "false"
    ELSE IF block.parent # hash(prev) THEN "false"
    ELSE "true"

\* The && chain evaluates left to right and stops at the first false
\* conjunct; an overflowing addition aborts the call in a debug build.
IsBlockValid(block, prev, b) ==
    IF b = "debug" /\ AddOverflows(prev.height, 1) THEN "panic"
    ELSE IF block.height # WrapAdd(prev.height, 1) THEN "false"
    ELSE IF b = "debug" /\ AddOverflows(prev.state, block.extrinsic) THEN "panic"
    ELSE IF block.state # WrapAdd(prev.state, block.extrinsic) THEN "false"
    ELSE IF block.parent # hash(prev) THEN "false"
    ELSE IF hash(block) < THRESHOLD THEN "true" ELSE "false"

\* Mutant: the odd rule accepts every block the base rule accepts.
VerifyBlockOddIgnored(method, block, prev, b) ==
    LET r == IsBlockValid(block, prev, b)
    IN  IF r # "true" THEN r
        ELSE IF method = "Even" THEN (IF block.state % 2 = 0 THEN "true" ELSE "false")
        ELSE "true"

\* verify_block: the base rule, and for Even / Odd the parity of the state.
VerifyBlock(method, block, prev, b) ==
    LET r == IsBlockValid(block, prev, b)
    IN  IF r # "true" THEN r
        ELSE IF method = "Even" THEN (IF block.state % 2 = 0 THEN "true" ELSE "false")
        ELSE IF method = "Odd" THEN (IF block.state % 2 # 0 THEN "true" ELSE "false")
        ELSE "true"

\* ------------------------------------------------------- verify_sub_chain
\* Mutant: the fork comparison is not strict.
EvenStepNonStrict(block, prev, b) ==
    IF block.height >= FORK_HEIGHT THEN VerifyBlock("Even", block, prev, b)
    ELSE VerifyBlock("Threshold", block, prev, b)

\* Mutant: only the first block after the fork has its parity checked.
EvenStepFirstOnly(block, prev, b) ==
    IF block.height = FORK_HEIGHT + 1 THEN VerifyBlock("Even", block, prev, b)
    ELSE VerifyBlock("Threshold", block, prev, b)

\* The loop bodies: the rule each variant applies to one block.
ThresholdStep(block, prev, b) == VerifyBlock("Threshold", block, prev, b)

EvenStep(block, prev, b) ==
    IF block.height > FORK_HEIGHT THEN VerifyBlock("Even", block, prev, b)
    ELSE VerifyBlock("Threshold", block, prev, b)

OddStep(block, prev, b) ==
    IF block.height > FORK_HEIGHT THEN VerifyBlock("Odd", block, prev, b)
    ELSE VerifyBlock("Threshold", block, prev, b)

PolicyStep(policy, block, prev, b) ==
    IF policy = "even" THEN EvenStep(block, prev, b)
    ELSE IF policy = "odd" THEN OddStep(block, prev, b)
    ELSE ThresholdStep(block, prev, b)

\* Mutant: the walk returns after judging one candidate.
VerifyFromFirstOnly(policy, prev, chain, i, b) ==
    IF i > Len(chain) THEN "true" ELSE PolicyStep(policy, chain[i], prev, b)

\* The for loop from candidate i on: prev is the last accepted block; the
\* first block that is not accepted ends the walk with its verdict.
RECURSIVE VerifyFrom(_, _, _, _, _)
VerifyFrom(policy, prev, chain, i, b) ==
    IF i > Len(chain) THEN "true"
    ELSE LET r == PolicyStep(policy, chain[i], prev, b)
         IN  IF r # "true" THEN r
             ELSE VerifyFrom(policy, chain[i], chain, i + 1, b)

\* Mutant: prev is never advanced past the root.
RECURSIVE VerifyStalePrev(_, _, _, _)
VerifyStalePrev(self, chain, i, b) ==
    IF i > Len(chain) THEN "true"
    ELSE LET r == ThresholdStep(chain[i], self, b)
         IN  IF r # "true" THEN r
             ELSE VerifyStalePrev(self, chain, i + 1, b)

VerifySubChainStalePrev(self, chain, b) == VerifyStalePrev(self, chain, 1, b)

\* Mutant: the walk takes the first candidate for the root and starts at
\* the second.
VerifySubChainSkipFirst(self, chain, b) ==
    IF chain = <<>> THEN "true" ELSE VerifyFrom("threshold", chain[1], chain, 2, b)

VerifySubChain(self, chain, b) == VerifyFrom("threshold", self, chain, 1, b)

VerifySubChainEven(self, chain, b) == VerifyFrom("even", self, chain, 1, b)

VerifySubChainOdd(self, chain, b) == VerifyFrom("odd", self, chain, 1, b)

\* The variant a caller selects.
VerifyWith(policy, self, chain, b) ==
    IF policy = "even" THEN VerifySubChainEven(self, chain, b)
    ELSE IF policy = "odd" THEN VerifySubChainOdd(self, chain, b)
    ELSE VerifySubChain(self, chain, b)

\* ----------------------------------------- build_contentious_forked_chain
\* Mutant: o1 is mined with extrinsic 1, which leaves its state even.
ForkExtrinsicEvenO1(k) == <<2, 5, 1, 2, 1, 4>>[k]

\* The k-th header the builder mines (a1, a2, e1, e2, o1, o2): its
\* extrinsic, and its parent among genesis and the headers mined before.
ForkExtrinsic(k) == <<2, 5, 1, 2, 2, 4>>[k]

ForkParent(k, mined) ==
    IF k = 1 THEN genesis
    ELSE IF k = 5 THEN mined[2]
    ELSE mined[k - 1]

ForkSteps == 6

\* The returned triple, once all six headers are mined.
ForkPrefix(mined) == <<genesis, mined[1], mined[2]>>
ForkEven(mined) == <<mined[3], mined[4]>>
ForkOdd(mined) == <<mined[5], mined[6]>>

\* ------------------------------------------------------------------ state
VARIABLES
    scenario,   \* which caller drives the library in this run
    build,      \* "debug": overflow checks on; "release": wrapping
    chain,      \* headers mined on top of genesis, in order
    call,       \* the child call in progress or last finished
    tamper,     \* <<>> or <<[idx, field, value]>>: one overwritten field
    forked,     \* headers mined so far by build_contentious_forked_chain
    probe,      \* <<>> or <<[block, prev, result]>>: one is_block_valid call
    atm         \* the ATM of c1_state_machine/p3_atm.rs and its last transition

vars == <<scenario, build, chain, call, tamper, forked, probe, atm>>

Scenarios == {"chain", "fork", "free", "sum"}

\* Extrinsics the chain scenario mines with, and those of the sum
\* scenario, whose running total leaves the word.
Extrinsics == {1, 2}
SumExtrinsics == {1, MaxU}

\* Arbitrary headers handed to child and is_block_valid in the free scenario.
ArbHeaders == [parent : {0, 1}, height : {0, 1, MaxU}, extrinsic : {0, 1, MaxU}, state : {0, 1, MaxU}, consensus_digest : {0, 1}]
ArbExtrinsics == {0, 1, MaxU}

\* The ATM while the chain is exercised: no machine.
AtmOff == [mode |-> "off"]

IdleCall == [status |-> "idle", parent |-> genesis, extrinsic |-> 0, depth |-> 0, result |-> <<>>]

\* The chain and fork scenarios add 1, 2, 4 and 5 to small states and
\* heights: no sum overflows, both builds behave alike, and they run as
\* the tests do, with overflow checks on.  The free and sum scenarios run
\* in both.
Init ==
    /\ scenario \in Scenarios
    /\ build \in (IF scenario \in {"free", "sum"} THEN Builds ELSE {"debug"})
    /\ chain = <<>>
    /\ call = IdleCall
    /\ tamper = <<>>
    /\ forked = <<>>
    /\ probe = <<>>
    /\ atm = AtmOff

Tip == IF chain = <<>> THEN genesis ELSE chain[Len(chain)]

CallFinished == call.status \in {"idle", "returned"}

BeginCall(p, e) == [status |-> "mining", parent |-> p, extrinsic |-> e, depth |-> 1, result |-> <<>>]

\* ---------------------------------------------------------- Header::child
\* A caller extends the chain: tip.child(e).
StartChild ==
    /\ scenario \in {"chain", "sum"}
    /\ CallFinished
    /\ tamper = <<>>
    /\ Len(chain) < (IF scenario = "sum" THEN MaxSumChain ELSE MaxChain)
    /\ \E e \in (IF scenario = "sum" THEN SumExtrinsics ELSE Extrinsics) : call' = BeginCall(Tip, e)
    /\ UNCHANGED <<scenario, build, chain, tamper, forked, probe, atm>>

\* build_contentious_forked_chain mines its next header.
StartForkChild ==
    /\ scenario = "fork"
    /\ CallFinished
    /\ Len(forked) < ForkSteps
    /\ call' = BeginCall(ForkParent(Len(forked) + 1, forked), ForkExtrinsic(Len(forked) + 1))
    /\ UNCHANGED <<scenario, build, chain, tamper, forked, probe, atm>>

\* child on an arbitrary parent header.
StartFreeChild ==
    /\ scenario = "free"
    /\ call.status = "idle"
    /\ probe = <<>>
    /\ \E p \in ArbHeaders, e \in ArbExtrinsics : call' = BeginCall(p, e)
    /\ UNCHANGED <<scenario, build, chain, tamper, forked, probe, atm>>

\* self.height + 1 or self.state + extrinsic overflows with checks on.
ChildPanic ==
    /\ call.status = "mining"
    /\ build = "debug"
    /\ ChildOverflows(call.parent, call.extrinsic)
    /\ call' = [call EXCEPT !.status = "panic", !.depth = 0]
    /\ UNCHANGED <<scenario, build, chain, tamper, forked, probe, atm>>

ChildComputes == build = "release" \/ ~ChildOverflows(call.parent, call.extrinsic)

\* The drawn nonce n puts the hash below THRESHOLD: h is returned through
\* every frame to the caller.
ChildReturn ==
    /\ call.status = "mining"
    /\ ChildComputes
    /\ \E n \in U64 :
          LET h == ChildCandidate(call.parent, call.extrinsic, n)
          IN  /\ hash(h) < THRESHOLD
              /\ call' = [call EXCEPT !.status = "returned", !.depth = 0, !.result = <<h>>]
              /\ chain' = IF scenario \in {"chain", "sum"} THEN Append(chain, h) ELSE chain
              /\ forked' = IF scenario = "fork" THEN Append(forked, h) ELSE forked
    /\ UNCHANGED <<scenario, build, tamper, probe, atm>>

\* Some nonce the random source can draw fails the threshold.
SomeNonceFails == ~(\A n \in U64 : hash(ChildCandidate(call.parent, call.extrinsic, n)) < THRESHOLD)

\* The drawn nonce fails: self.child(extrinsic) is called from this frame.
\* The failed candidate is dropped, so every failing nonce leads to the
\* same state.
ChildRetry ==
    /\ call.status = "mining"
    /\ ChildComputes
    /\ SomeNonceFails
    /\ call.depth < StackLimit
    /\ call' = [call EXCEPT !.depth = call.depth + 1]
    /\ UNCHANGED <<scenario, build, chain, tamper, forked, probe, atm>>

\* The drawn nonce fails and the stack has no room for another frame.
ChildStackOverflow ==
    /\ call.status = "mining"
    /\ ChildComputes
    /\ SomeNonceFails
    /\ call.depth >= StackLimit
    /\ call' = [call EXCEPT !.status = "stack_overflow", !.depth = 0]
    /\ UNCHANGED <<scenario, build, chain, tamper, forked, probe, atm>>

\* ------------------------------------------------------------- test moves
\* A field of one mined block is overwritten with a different value
\* (b1.parent = 10 and the like in the bc_3_cant_verify_* tests). A digest
\* is overwritten with every value that keeps the block's proof of work and
\* with a few that need not.
TamperValues(h, f) == IF f = "consensus_digest" THEN {v \in U64 : hash([h EXCEPT !.consensus_digest = v]) < THRESHOLD} \cup {0, 1, 2, 10, MaxU} ELSE {0, 1, 2, 10, MaxU}

Tamper ==
    /\ scenario = "chain"
    /\ CallFinished
    /\ tamper = <<>>
    /\ Len(chain) <= MaxTamperLen
    /\ \E i \in 1..Len(chain), f \in Fields :
          \E v \in TamperValues(chain[i], f) :
             /\ v # chain[i][f]
             /\ tamper' = <<[idx |-> i, field |-> f, value |-> v]>>
    /\ UNCHANGED <<scenario, build, chain, call, forked, probe, atm>>

\* The chain handed to the verifier.
TamperedChain ==
    IF tamper = <<>> THEN chain
    ELSE [chain EXCEPT ![tamper[1].idx] = [@ EXCEPT ![tamper[1].field] = tamper[1].value]]

\* is_block_valid on an arbitrary pair of headers.
Probe ==
    /\ scenario = "free"
    /\ call.status = "idle"
    /\ probe = <<>>
    /\ \E block \in ArbHeaders, prev \in ArbHeaders :
          probe' = <<[block |-> block, prev |-> prev, result |-> IsBlockValid(block, prev, build)]>>
    /\ UNCHANGED <<scenario, build, chain, call, tamper, forked, atm>>

\* is_block_valid on a freshly mined child and its parent.
ProbeChild ==
    /\ scenario = "free"
    /\ call.status = "returned"
    /\ probe = <<>>
    /\ probe' = <<[block |-> call.result[1], prev |-> call.parent, result |-> IsBlockValid(call.result[1], call.parent, build)]>>
    /\ UNCHANGED <<scenario, build, chain, call, tamper, forked, atm>>

Next ==
    \/ StartChild
    \/ StartForkChild
    \/ StartFreeChild
    \/ ChildPanic
    \/ ChildReturn
    \/ ChildRetry
    \/ ChildStackOverflow
    \/ Tamper
    \/ Probe
    \/ ProbeChild

Spec == Init /\ [][Next]_vars

\* ------------------------------------------------------------ properties
Verdict(b) == VerifySubChain(genesis, TamperedChain, b)

\* Blocks of a chain above the fork height, and the parity of their states.
PostFork(c) == {i \in 1..Len(c) : c[i].height > FORK_HEIGHT}
AllPostForkEven(c) == \A i \in PostFork(c) : c[i].state % 2 = 0
AllPostForkOdd(c) == \A i \in PostFork(c) : c[i].state % 2 # 0

\* The chain scenario at rest with every block as child returned it.
MinedChain == scenario \in {"chain", "sum"} /\ tamper = <<>> /\ CallFinished

\* C1: the header h that p.child(e) returns satisfies the four invariants
\* against p in u64 arithmetic: h.height = p.height + 1, h.state =
\* p.state + e with h.extrinsic = e, h.parent = hash(p), hash(h) < THRESHOLD;
\* in a build with overflow checks the two sums are exact.
C1_ChildSatisfiesInvariants ==
    call.status = "returned" =>
        LET p == call.parent
            e == call.extrinsic
            h == call.result[1]
        IN  /\ h.height = (p.height + 1) % Mod
            /\ h.extrinsic = e
            /\ h.state = (p.state + e) % Mod
            /\ h.parent = hash(p)
            /\ hash(h) < THRESHOLD
            /\ build = "debug" => (h.height = p.height + 1 /\ h.state = p.state + e)

\* A child of a non-genesis parent with a non-zero extrinsic has been returned.
C1_Witness ==
    /\ call.status = "returned"
    /\ call.parent.height > 0
    /\ call.parent.state > 0
    /\ call.extrinsic > 0

\* C2: every chain built from genesis by repeated child passes
\* verify_sub_chain from genesis under the threshold-only rule, and so does
\* the one-block chain child builds on any root.
C2_ChildBuiltChainVerifies ==
    /\ MinedChain => VerifySubChain(genesis, chain, build) = "true"
    /\ (scenario = "fork" /\ Len(forked) >= 2) => VerifySubChain(genesis, <<forked[1], forked[2]>>, build) = "true"
    /\ (scenario = "free" /\ call.status = "returned") => VerifySubChain(call.parent, call.result, build) = "true"

\* A chain of at least three mined blocks has been verified.
C2_Witness == MinedChain /\ Len(chain) >= 3 /\ VerifySubChain(genesis, chain, build) = "true"

\* C3 as stated: overwriting parent, height, state or consensus_digest of
\* one block of a valid chain with a different value makes
\* verify_sub_chain return false.
C3_AnyMutationRejected == tamper # <<>> => Verdict(build) = "false"

\* The overwritten block still meets the threshold and still hashes to what
\* its successor (if any) records as parent.
TamperKeepsPow ==
    LET i == tamper[1].idx
        blk == TamperedChain[i]
    IN  /\ hash(blk) < THRESHOLD
        /\ i < Len(chain) => hash(blk) = chain[i + 1].parent

\* C3 amended: overwriting parent, height or state of one block with a
\* different value makes verify_sub_chain return false; overwriting
\* consensus_digest makes it return false unless the block's hash with the
\* new digest is still below THRESHOLD and, when the block has a successor,
\* still equals the successor's parent field, in which case it returns true.
C3_MutationRejectedUnlessPowKept ==
    tamper # <<>> =>
        IF tamper[1].field = "consensus_digest" /\ TamperKeepsPow
        THEN Verdict(build) = "true"
        ELSE Verdict(build) = "false"

\* The digest of a block that has a successor was overwritten with another
\* nonce that meets the threshold, and the chain is rejected at the successor.
C3_Witness ==
    /\ tamper # <<>>
    /\ tamper[1].field = "consensus_digest"
    /\ tamper[1].idx < Len(chain)
    /\ hash(TamperedChain[tamper[1].idx]) < THRESHOLD
    /\ Verdict(build) = "false"

\* C4 as stated: a valid chain whose blocks above FORK_HEIGHT all have even
\* states passes verify_sub_chain_even and fails verify_sub_chain_odd, and
\* symmetrically for odd states.
C4_ParityChainsSeparated ==
    MinedChain =>
        /\ AllPostForkEven(chain) =>
              /\ VerifySubChainEven(genesis, chain, build) = "true"
              /\ VerifySubChainOdd(genesis, chain, build) = "false"
        /\ AllPostForkOdd(chain) =>
              /\ VerifySubChainOdd(genesis, chain, build) = "true"
              /\ VerifySubChainEven(genesis, chain, build) = "false"

\* C4 amended: a valid chain that has at least one block above FORK_HEIGHT
\* and whose blocks above FORK_HEIGHT all have even states passes
\* verify_sub_chain_even and fails verify_sub_chain_odd, and symmetrically
\* for odd states; a valid chain with no block above FORK_HEIGHT passes both.
C4_ParityChainsSeparatedPastFork ==
    MinedChain =>
        /\ (PostFork(chain) # {} /\ AllPostForkEven(chain)) =>
              /\ VerifySubChainEven(genesis, chain, build) = "true"
              /\ VerifySubChainOdd(genesis, chain, build) = "false"
        /\ (PostFork(chain) # {} /\ AllPostForkOdd(chain)) =>
              /\ VerifySubChainOdd(genesis, chain, build) = "true"
              /\ VerifySubChainEven(genesis, chain, build) = "false"
        /\ PostFork(chain) = {} =>
              /\ VerifySubChainEven(genesis, chain, build) = "true"
              /\ VerifySubChainOdd(genesis, chain, build) = "true"

\* A chain with two blocks above the fork, both odd, after an even block at
\* the fork height: accepted by the odd rule, rejected by the even rule.
C4_Witness ==
    /\ MinedChain
    /\ Len(chain) = FORK_HEIGHT + 2
    /\ AllPostForkOdd(chain)
    /\ chain[FORK_HEIGHT].state % 2 = 0
    /\ VerifySubChainOdd(genesis, chain, build) = "true"
    /\ VerifySubChainEven(genesis, chain, build) = "false"

\* C5: in a chain built from genesis by repeated child, one block above
\* FORK_HEIGHT with an odd state makes verify_sub_chain_even return false,
\* and one with an even state makes verify_sub_chain_odd return false,
\* wherever the block stands and whatever follows it.
C5_OffendingBlockRejected ==
    MinedChain =>
        /\ ~AllPostForkEven(chain) => VerifySubChainEven(genesis, chain, build) = "false"
        /\ ~AllPostForkOdd(chain) => VerifySubChainOdd(genesis, chain, build) = "false"

\* The first block after the fork is even and the second is odd: the even
\* rule rejects the chain at the later block.
C5_Witness ==
    /\ MinedChain
    /\ Len(chain) >= FORK_HEIGHT + 2
    /\ chain[FORK_HEIGHT + 1].state % 2 = 0
    /\ chain[FORK_HEIGHT + 2].state % 2 # 0
    /\ VerifySubChainEven(genesis, chain, build) = "false"

\* Consecutive pairs <<prev, block>> of the chain handed to the verifier.
Pairs == {<<IF i = 1 THEN genesis ELSE TamperedChain[i - 1], TamperedChain[i]>> : i \in 1..Len(TamperedChain)}

\* C6: the fork comparison is strict.  A block with height <= FORK_HEIGHT
\* gets from the even and odd variants exactly the base rule's verdict; a
\* block with height > FORK_HEIGHT is accepted exactly when the base rule
\* accepts it and its state has the variant's parity.  So a mined chain
\* passes the even (odd) variant exactly when its blocks above FORK_HEIGHT
\* are all even (odd).
C6_ForkComparisonStrict ==
    /\ \A pr \in Pairs :
          LET prev == pr[1]
              block == pr[2]
              base == IsBlockValid(block, prev, build)
          IN  IF block.height <= FORK_HEIGHT
              THEN EvenStep(block, prev, build) = base /\ OddStep(block, prev, build) = base
              ELSE /\ EvenStep(block, prev, build) = "true" <=> (base = "true" /\ block.state % 2 = 0)
                   /\ OddStep(block, prev, build) = "true" <=> (base = "true" /\ block.state % 2 # 0)
    /\ MinedChain =>
          /\ VerifySubChainEven(genesis, chain, build) = "true" <=> AllPostForkEven(chain)
          /\ VerifySubChainOdd(genesis, chain, build) = "true" <=> AllPostForkOdd(chain)

\* The block at the fork height has an odd state, the blocks above it are
\* even, and the even rule accepts the chain.
C6_Witness ==
    /\ MinedChain
    /\ Len(chain) > FORK_HEIGHT
    /\ chain[FORK_HEIGHT].height = FORK_HEIGHT
    /\ chain[FORK_HEIGHT].state % 2 # 0
    /\ VerifySubChainEven(genesis, chain, build) = "true"

\* build_contentious_forked_chain has returned.
ForkBuilt == scenario = "fork" /\ Len(forked) = ForkSteps

FullEven == Tail(ForkPrefix(forked)) \o ForkEven(forked)
FullOdd == Tail(ForkPrefix(forked)) \o ForkOdd(forked)

\* C7: the builder returns a prefix that starts with genesis and ends at
\* height FORK_HEIGHT, two suffixes that extend the prefix tip, both full
\* chains pass verify_sub_chain, the even chain passes only the even
\* variant and the odd chain only the odd variant.
C7_ForkedChainContentious ==
    ForkBuilt =>
        LET prefix == ForkPrefix(forked)
            tip == prefix[Len(prefix)]
        IN  /\ prefix[1] = genesis
            /\ tip.height = FORK_HEIGHT
            /\ ForkEven(forked)[1].parent = hash(tip)
            /\ ForkOdd(forked)[1].parent = hash(tip)
            /\ VerifySubChain(genesis, FullEven, build) = "true"
            /\ VerifySubChain(genesis, FullOdd, build) = "true"
            /\ VerifySubChainEven(genesis, FullEven, build) = "true"
            /\ VerifySubChainOdd(genesis, FullEven, build) = "false"
            /\ VerifySubChainOdd(genesis, FullOdd, build) = "true"
            /\ VerifySubChainEven(genesis, FullOdd, build) = "false"

\* The builder has returned its three vectors.
C7_Witness == ForkBuilt /\ call.status = "returned" /\ Len(FullEven) = 4 /\ Len(FullOdd) = 4

\* C8: mining ends at a configured attempt ceiling with an explicit
\* mining-exhausted result; it never recurses until the call stack
\* overflows.
C8_MiningStopsAtCeiling == call.status # "stack_overflow"

\* C9: child is total: a call of child never ends without returning a
\* header.
C9_ChildTotal == call.status \in {"idle", "mining", "returned"}

\* C10: is_block_valid returns a boolean for every pair of headers and
\* never aborts; a predecessor at the maximum height, or a state sum past
\* the maximum, yields false.
C10_IsBlockValidNeverAborts ==
    probe # <<>> =>
        /\ probe[1].result \in {"true", "false"}
        /\ (AddOverflows(probe[1].prev.height, 1) \/ AddOverflows(probe[1].prev.state, probe[1].block.extrinsic)) => probe[1].result = "false"

\* The exact sum of the extrinsics of blocks 1..k of a chain.
RECURSIVE ExtrinsicSum(_, _)
ExtrinsicSum(c, k) == IF k = 0 THEN 0 ELSE ExtrinsicSum(c, k - 1) + c[k].extrinsic

Policies == {"threshold", "even", "odd"}

C11_WitnessExact ==
    /\ scenario = "chain"
    /\ Len(chain) = MaxChain
    /\ VerifySubChainEven(genesis, chain, build) = "true"
    /\ chain[MaxChain].state = ExtrinsicSum(chain, MaxChain)

\* The root and candidates of the verification the current state holds:
\* the mined (possibly overwritten) chain on genesis, the builder's headers
\* in mining order on genesis, or one arbitrary block on an arbitrary root.
WalkRoot == IF scenario = "free" /\ probe # <<>> THEN probe[1].prev ELSE genesis
WalkChain ==
    IF scenario = "free" THEN (IF probe # <<>> THEN <<probe[1].block>> ELSE <<>>)
    ELSE IF scenario = "fork" THEN forked
    ELSE TamperedChain

\* The predecessor the walk compares candidate i with, and the candidates
\* that do not satisfy the policy's predicate against it.
WalkPrev(i) == IF i = 1 THEN WalkRoot ELSE WalkChain[i - 1]
WalkFailures(policy) == {i \in 1..Len(WalkChain) : PolicyStep(policy, WalkChain[i], WalkPrev(i), build) # "true"}
FirstFailure(policy) == LET bad == WalkFailures(policy) IN CHOOSE i \in bad : \A j \in bad : i <= j

\* C16: each variant returns true exactly when every candidate satisfies
\* the policy's predicate against its immediate predecessor (the root for
\* the first); otherwise its outcome is that of the first candidate that
\* fails and is the same as for the candidates up to that one alone; for a
\* mined chain with one overwritten field that outcome is false; an empty
\* candidate sequence is accepted on any root.
C16_WalkInOrderShortCircuits ==
    \A policy \in Policies :
        /\ VerifyWith(policy, WalkRoot, <<>>, build) = "true"
        /\ VerifyWith(policy, call.parent, <<>>, build) = "true"
        /\ CallFinished =>
              LET r == VerifyWith(policy, WalkRoot, WalkChain, build)
                  bad == WalkFailures(policy)
              IN  /\ r = "true" <=> bad = {}
                  /\ bad # {} =>
                        LET i == FirstFailure(policy)
                        IN  /\ r = PolicyStep(policy, WalkChain[i], WalkPrev(i), build)
                            /\ r = VerifyWith(policy, WalkRoot, SubSeq(WalkChain, 1, i), build)
                            /\ scenario # "free" => r = "false"

\* The first of two blocks was overwritten: the walk ends there with
\* false although a candidate follows.
C16_Witness ==
    /\ scenario = "chain"
    /\ tamper # <<>>
    /\ Len(chain) = 2
    /\ WalkFailures("threshold") # {}
    /\ FirstFailure("threshold") = 1
    /\ VerifySubChain(genesis, TamperedChain, build) = "false"

\* ---------------------------------------------------------------------------
\* The ATM (c1_state_machine/p3_atm.rs)
\* ---------------------------------------------------------------------------

\* Longest keystroke register explored.
MaxKeys == 3

NumericKeys == {"One", "Two", "Three", "Four"}

Key == NumericKeys \cup {"Enter"}

\* The digit a numeric key contributes to the amount ("{}1" .. "{}4").
Digit(key) == CASE key = "One" -> 1 [] key = "Two" -> 2 [] key = "Three" -> 3 [] key = "Four" -> 4

\* Position of the variant in the enum, which is what its derived Hash feeds.
Discriminant(key) == CASE key = "One" -> 0 [] key = "Two" -> 1 [] key = "Three" -> 2 [] key = "Four" -> 3 [] key = "Enter" -> 4

RECURSIVE HashKeysFrom(_, _, _)
HashKeysFrom(acc, reg, i) == IF i > Len(reg) THEN acc ELSE HashKeysFrom(HashWrite(acc, Discriminant(reg[i])), reg, i + 1)

\* crate::hash of a Vec<Key>: the length, then each key, then the finisher.
HashKeys(reg) == HashFinish(HashKeysFrom(HashWrite(0, Len(reg) % Mod), reg, 1))

Waiting == [kind |-> "Waiting", pin |-> 0]

Authenticating(pin) == [kind |-> "Authenticating", pin |-> pin]

Authenticated == [kind |-> "Authenticated", pin |-> 0]

SwipeCardAction(pin) == [kind |-> "SwipeCard", pin |-> pin, key |-> "Enter"]

PressKeyAction(key) == [kind |-> "PressKey", pin |-> 0, key |-> key]

\* Variants of the branches below, each with one defect.
PushKeyAlwaysOne(s, key) == [s EXCEPT !.keystroke_register = Append(@, "One")]

EnterPinKeepsRegister(s) == [panicked |-> FALSE, state |-> [s EXCEPT !.expected_pin_hash = IF s.expected_pin_hash.pin = HashKeys(s.keystroke_register) THEN Authenticated ELSE Waiting]]

SwipeCardAuthenticates(s, pin) == [s EXCEPT !.expected_pin_hash = Authenticated, !.keystroke_register = <<>>]

SwipeCardOverwrites(s, pin) == [s EXCEPT !.expected_pin_hash = IF s.expected_pin_hash.kind = "Authenticated" THEN Authenticated ELSE Authenticating(pin), !.keystroke_register = <<>>]

\* PressKey while Waiting: the same cash, Waiting, an empty register.
PressKeyWaiting(s) == [cash_inside |-> s.cash_inside, expected_pin_hash |-> Waiting, keystroke_register |-> <<>>]

\* A numeric key while Authenticating or Authenticated: pushed on the register.
PushKey(s, key) == [s EXCEPT !.keystroke_register = Append(@, key)]

\* Enter while Authenticating: compare the register's hash with the card's.
EnterPin(s) == [panicked |-> FALSE, state |-> [s EXCEPT !.expected_pin_hash = IF s.expected_pin_hash.pin = HashKeys(s.keystroke_register) THEN Authenticated ELSE Waiting, !.keystroke_register = <<>>]]

\* One step of the fold: format!("{}d", acc).parse::<u64>(); -1 stands for
\* the Err the unwrap panics on.
AmountStep(acc, key) == IF acc = -1 THEN -1 ELSE IF key = "Enter" THEN acc ELSE IF acc * 10 + Digit(key) > MaxU THEN -1 ELSE acc * 10 + Digit(key)

RECURSIVE AmountFold(_, _, _)
AmountFold(acc, reg, i) == IF i > Len(reg) THEN acc ELSE AmountFold(AmountStep(acc, reg[i]), reg, i + 1)

Amount(reg) == AmountFold(0, reg, 1)

EnterAmountRefusesExact(s) == [panicked |-> Amount(s.keystroke_register) = -1, state |-> [cash_inside |-> IF Amount(s.keystroke_register) # -1 /\ s.cash_inside > Amount(s.keystroke_register) THEN s.cash_inside - Amount(s.keystroke_register) ELSE s.cash_inside, expected_pin_hash |-> Waiting, keystroke_register |-> <<>>]]

\* Enter while Authenticated: withdraw the amount if the machine holds it.
EnterAmount(s) == [panicked |-> Amount(s.keystroke_register) = -1, state |-> [cash_inside |-> IF Amount(s.keystroke_register) # -1 /\ s.cash_inside >= Amount(s.keystroke_register) THEN s.cash_inside - Amount(s.keystroke_register) ELSE s.cash_inside, expected_pin_hash |-> Waiting, keystroke_register |-> <<>>]]

\* Action::SwipeCard.
SwipeCardTo(s, pin) == CASE s.expected_pin_hash.kind = "Waiting" -> [s EXCEPT !.expected_pin_hash = Authenticating(pin), !.keystroke_register = <<>>] [] s.expected_pin_hash.kind = "Authenticating" -> s [] s.expected_pin_hash.kind = "Authenticated" -> [s EXCEPT !.keystroke_register = <<>>]

\* Action::PressKey.
PressKeyTo(s, key) == CASE s.expected_pin_hash.kind = "Waiting" -> [panicked |-> FALSE, state |-> PressKeyWaiting(s)] [] s.expected_pin_hash.kind = "Authenticating" /\ key # "Enter" -> [panicked |-> FALSE, state |-> PushKey(s, key)] [] s.expected_pin_hash.kind = "Authenticating" /\ key = "Enter" -> EnterPin(s) [] s.expected_pin_hash.kind = "Authenticated" /\ key # "Enter" -> [panicked |-> FALSE, state |-> PushKey(s, key)] [] s.expected_pin_hash.kind = "Authenticated" /\ key = "Enter" -> EnterAmount(s)

\* Atm::next_state: the next state, or a panic (state is then meaningless).
NextState(s, t) == IF t.kind = "SwipeCard" THEN [panicked |-> FALSE, state |-> SwipeCardTo(s, t.pin)] ELSE PressKeyTo(s, t.key)

\* Inputs of the ATM runs.
CorrectPin == <<"One", "Two">>

PinHashes == {HashKeys(CorrectPin), HashKeys(<<"Four">>)}

RunCash == {0, 12}

AnyCash == {0, 12, MaxU}

Registers == UNION {[1..n -> Key] : n \in 0..MaxKeys}

AuthStates == {Waiting, Authenticated} \cup {Authenticating(p) : p \in PinHashes}

\* A session from the idle machine ("run"), or one transition from any
\* machine ("any").
AtmStart(mode, s) == [mode |-> mode, cur |-> s, last |-> <<>>, swiped |-> <<>>, entered |-> "none", status |-> "ok"]

AtmInit ==
    /\ scenario = "free"
    /\ build = "debug"
    /\ chain = <<>>
    /\ call = IdleCall
    /\ tamper = <<>>
    /\ forked = <<>>
    /\ probe = <<>>
    /\ \/ \E c \in RunCash :
            atm = AtmStart("run", [cash_inside |-> c, expected_pin_hash |-> Waiting, keystroke_register |-> <<>>])
       \/ \E c \in AnyCash, a \in AuthStates, r \in Registers :
            atm = AtmStart("any", [cash_inside |-> c, expected_pin_hash |-> a, keystroke_register |-> r])

AtmReady == atm.mode # "off" /\ atm.status = "ok" /\ (atm.mode = "any" => atm.last = <<>>)

AtmStep(t) ==
    atm' = [atm EXCEPT !.cur = IF NextState(atm.cur, t).panicked THEN @ ELSE NextState(atm.cur, t).state,
                      !.last = <<[from |-> atm.cur, action |-> t]>>,
                      !.swiped = IF t.kind = "SwipeCard" /\ atm.cur.expected_pin_hash.kind = "Waiting" THEN <<t.pin>> ELSE @,
                      !.entered = IF t.kind = "SwipeCard" /\ atm.cur.expected_pin_hash.kind = "Waiting" THEN "none"
                                  ELSE IF t = PressKeyAction("Enter") /\ atm.cur.expected_pin_hash.kind = "Authenticating" /\ atm.swiped # <<>>
                                       THEN (IF HashKeys(atm.cur.keystroke_register) = atm.swiped[1] THEN "right" ELSE "wrong")
                                       ELSE @,
                      !.status = IF NextState(atm.cur, t).panicked THEN "panic" ELSE "ok"]

SwipeCard ==
    /\ AtmReady
    /\ \E pin \in PinHashes : AtmStep(SwipeCardAction(pin))
    /\ UNCHANGED <<scenario, build, chain, call, tamper, forked, probe>>

PressKey ==
    /\ AtmReady
    /\ \E key \in Key :
        /\ (key # "Enter" /\ atm.cur.expected_pin_hash.kind # "Waiting") => Len(atm.cur.keystroke_register) < MaxKeys
        /\ AtmStep(PressKeyAction(key))
    /\ UNCHANGED <<scenario, build, chain, call, tamper, forked, probe>>

AtmNext == SwipeCard \/ PressKey

AtmSpec == AtmInit /\ [][AtmNext]_vars

\* The transition just taken, where one was taken and returned a state.
Stepped == atm.mode # "off" /\ atm.last # <<>> /\ atm.status = "ok"

From == atm.last[1].from

Did == atm.last[1].action

\* The decimal number the numeric keys of a register spell.
RECURSIVE DecimalValue(_)
DecimalValue(reg) == IF reg = <<>> THEN 0 ELSE IF reg[Len(reg)] = "Enter" THEN DecimalValue(SubSeq(reg, 1, Len(reg) - 1)) ELSE 10 * DecimalValue(SubSeq(reg, 1, Len(reg) - 1)) + Digit(reg[Len(reg)])

\* C12: Enter pressed in Authenticated with amount a keyed in returns the
\* machine to Waiting with an empty register; the cash becomes cash - a when
\* a <= cash and stays as it was when a > cash.
C12_WithdrawalOnEnter ==
    (Stepped /\ From.expected_pin_hash.kind = "Authenticated" /\ Did = PressKeyAction("Enter")) =>
        LET a == DecimalValue(From.keystroke_register)
        IN  /\ atm.cur.expected_pin_hash = Waiting
            /\ atm.cur.keystroke_register = <<>>
            /\ atm.cur.cash_inside = IF a <= From.cash_inside THEN From.cash_inside - a ELSE From.cash_inside

\* The whole cash is withdrawn: a = cash_inside > 0.
C12_Witness ==
    /\ Stepped
    /\ From.expected_pin_hash.kind = "Authenticated"
    /\ Did = PressKeyAction("Enter")
    /\ From.cash_inside > 0
    /\ DecimalValue(From.keystroke_register) = From.cash_inside
    /\ atm.cur.cash_inside = 0

\* The amount exceeds the cash, which is left as it was.
C12_WitnessTooMuch ==
    /\ Stepped
    /\ From.expected_pin_hash.kind = "Authenticated"
    /\ Did = PressKeyAction("Enter")
    /\ DecimalValue(From.keystroke_register) > From.cash_inside
    /\ atm.cur.cash_inside = From.cash_inside
    /\ From.cash_inside > 0

\* C13: Enter pressed in Authenticating(pin_hash) moves to Authenticated if
\* and only if the register hashes to pin_hash, and to Waiting otherwise; the
\* register is cleared and the cash is unchanged either way.
C13_PinCheckOnEnter ==
    (Stepped /\ From.expected_pin_hash.kind = "Authenticating" /\ Did = PressKeyAction("Enter")) =>
        /\ atm.cur.expected_pin_hash = Authenticated <=> HashKeys(From.keystroke_register) = From.expected_pin_hash.pin
        /\ atm.cur.expected_pin_hash # Authenticated => atm.cur.expected_pin_hash = Waiting
        /\ atm.cur.keystroke_register = <<>>
        /\ atm.cur.cash_inside = From.cash_inside

\* The keyed-in pin is the right one, after a session of at least two keys.
C13_Witness ==
    /\ Stepped
    /\ atm.mode = "run"
    /\ From.expected_pin_hash.kind = "Authenticating"
    /\ Did = PressKeyAction("Enter")
    /\ Len(From.keystroke_register) >= 2
    /\ atm.cur.expected_pin_hash = Authenticated

\* A wrong pin, with keys in the register, sends the machine back to Waiting.
C13_WitnessWrong ==
    /\ Stepped
    /\ From.expected_pin_hash.kind = "Authenticating"
    /\ Did = PressKeyAction("Enter")
    /\ From.keystroke_register # <<>>
    /\ HashKeys(From.keystroke_register) # From.expected_pin_hash.pin
    /\ atm.cur.expected_pin_hash = Waiting

\* C14: in every run from Waiting with an empty register, the cash decreases
\* only on Enter pressed in Authenticated, and Authenticated is entered only
\* by Enter pressed in Authenticating with a register hashing to the pin hash
\* of the preceding swipe; an Authenticated machine has seen a swipe followed
\* by the right pin.
C14_CashLeavesOnlyAfterPin ==
    (atm.mode = "run" /\ Stepped) =>
        /\ atm.cur.cash_inside <= From.cash_inside
        /\ atm.cur.cash_inside < From.cash_inside =>
            /\ From.expected_pin_hash = Authenticated
            /\ Did = PressKeyAction("Enter")
            /\ atm.swiped # <<>>
            /\ atm.entered = "right"
        /\ (atm.cur.expected_pin_hash = Authenticated /\ From.expected_pin_hash # Authenticated) =>
            /\ From.expected_pin_hash.kind = "Authenticating"
            /\ Did = PressKeyAction("Enter")
            /\ atm.swiped = <<From.expected_pin_hash.pin>>
            /\ HashKeys(From.keystroke_register) = atm.swiped[1]
        /\ atm.cur.expected_pin_hash.kind = "Authenticating" => atm.swiped = <<atm.cur.expected_pin_hash.pin>>
        /\ atm.cur.expected_pin_hash = Authenticated => atm.swiped # <<>> /\ atm.entered = "right"

\* Cash has left the machine in a run that started in Waiting.
C14_Witness ==
    /\ atm.mode = "run"
    /\ Stepped
    /\ atm.cur.cash_inside < From.cash_inside
    /\ atm.cur.cash_inside > 0
    /\ atm.entered = "right"

\* C15: a key pressed while Waiting with an empty register, and a card swiped
\* while Authenticating with any register, each return the starting state:
\* cash, auth status with its pin hash, and register.
C15_OutOfOrderIgnored ==
    Stepped =>
        /\ (Did.kind = "PressKey" /\ From.expected_pin_hash = Waiting /\ From.keystroke_register = <<>>) => atm.cur = From
        /\ (Did.kind = "SwipeCard" /\ From.expected_pin_hash.kind = "Authenticating") => atm.cur = From

\* Another card is swiped part way through the pin.
C15_Witness ==
    /\ Stepped
    /\ Did.kind = "SwipeCard"
    /\ From.expected_pin_hash.kind = "Authenticating"
    /\ Did.pin # From.expected_pin_hash.pin
    /\ From.keystroke_register # <<>>
    /\ atm.cur = From

\* A key is pressed before any card is swiped.
C15_WitnessKey ==
    /\ Stepped
    /\ Did = PressKeyAction("Three")
    /\ From.expected_pin_hash = Waiting
    /\ From.keystroke_register = <<>>
    /\ atm.cur = From

\* C17: a numeric key pressed in Authenticating or Authenticated is appended
\* to the end of the register; the cash and the auth status, with its pin
\* hash, are unchanged.
C17_NumericKeyAppended ==
    (Stepped /\ Did.kind = "PressKey" /\ Did.key \in NumericKeys /\ From.expected_pin_hash.kind \in {"Authenticating", "Authenticated"}) =>
        /\ atm.cur.keystroke_register = From.keystroke_register \o <<Did.key>>
        /\ atm.cur.cash_inside = From.cash_inside
        /\ atm.cur.expected_pin_hash = From.expected_pin_hash

\* Four is pressed after other keys while a pin is being entered.
C17_Witness ==
    /\ Stepped
    /\ Did = PressKeyAction("Four")
    /\ From.expected_pin_hash.kind = "Authenticating"
    /\ From.keystroke_register # <<>>
    /\ atm.cur.keystroke_register[Len(atm.cur.keystroke_register)] = "Four"
    /\ Len(atm.cur.keystroke_register) = Len(From.keystroke_register) + 1

\* C18: for every register, Enter in Authenticating and Enter in
\* Authenticated both produce a next state without aborting, whatever the
\* size of the number the keys spell.
C18_EnterNeverAborts ==
    (atm.mode # "off" /\ atm.last # <<>> /\ Did = PressKeyAction("Enter")) => atm.status = "ok"

\* Enter in Authenticating never aborts, and Enter in Authenticated aborts
\* exactly when the number spelled does not fit the integer.
C18_EnterAbortsOnlyOnLargeAmount ==
    (atm.mode # "off" /\ atm.last # <<>>) =>
        atm.status = "panic" <=>
            /\ Did = PressKeyAction("Enter")
            /\ From.expected_pin_hash = Authenticated
            /\ DecimalValue(From.keystroke_register) > MaxU

====
